---- MODULE Spec2Model ----
(***************************************************************************)
(* Model of pynuodb/cursor.py: the Cursor class and its StatementCache,    *)
(* over an abstract session (EncodedSession) and result set (ResultSet).   *)
(*                                                                         *)
(* Statement handles are numbers: 0 is the scratch Statement made by       *)
(* create_statement() in StatementCache.__init__, h >= 1 is the h-th       *)
(* PreparedStatement made by create_prepared_statement().  Result sets are *)
(* numbered 1.. in the order fetch_result_set() returned them.  Python's   *)
(* None is modelled by 0 where the other values are positive numbers.      *)
(***************************************************************************)
EXTENDS Integers, Sequences, FiniteSets, TLC

\* ---- bounds of the model -------------------------------------------------
MaxCapacity == 2          \* prepared_statement_cache_size ranges over 1..MaxCapacity
MaxParams == 1            \* len(parameters) ranges over 0..MaxParams
MaxRowCount == 1          \* row_count reported by the session is MaxRowCount or -(MaxRowCount + 1)
\* Spec: every method of the cursor
NumTexts == 1             \* distinct SQL texts
MaxAccesses == 1          \* calls of get_prepared_statement in one run
MaxResultSets == 1        \* result sets fetched in one run
MaxRows == 1              \* rows of one result set range over 0..MaxRows
MaxRowNumber == 2         \* cap on the rownumber counter
MaxSize == 1              \* fetchmany sizes range over 0..MaxSize
\* CacheSpec: the statement cache
NumCacheTexts == 3
MaxCacheAccesses == 4
\* EvictSpec and FaultSpec: evictions under a held result set, failing session calls
NumEvictTexts == 2
MaxEvictAccesses == 2
MaxFaultAccesses == 3
\* FetchSpec: the result set
MaxFetchResultSets == 2
MaxFetchRows == 5
MaxFetchRowNumber == 6
MaxFetchSize == 3

\* ---- values --------------------------------------------------------------
None == 0
Texts == 1..NumTexts
CacheTexts == 1..NumCacheTexts
EvictTexts == 1..NumEvictTexts
NoParams == -1                      \* parameters=None
NoSize == -1                        \* size=None
ParamLens == 0..MaxParams
RowCounts == {-(MaxRowCount + 1), MaxRowCount}

VARIABLES
    \* Cursor
    closed, description, rowcount, colcount, rownumber, query, result_set,
    \* StatementCache
    ps_cache, ps_key_queue, ps_cache_size,
    \* session and result sets (the collaborators)
    session_closed, prepared, closeCount, resultSets, rs_state,
    \* what the last call of a Cursor method did
    lastOp, outcome, calls, returned,
    \* history
    accessLog, rowsReturned

cursorVars == <<closed, description, rowcount, colcount, rownumber, query, result_set>>
cacheVars == <<ps_cache, ps_key_queue, ps_cache_size>>
sessionVars == <<session_closed, prepared, closeCount, resultSets, rs_state>>
opVars == <<lastOp, outcome, calls, returned>>
histVars == <<accessLog, rowsReturned>>
vars == <<cursorVars, cacheVars, sessionVars, opVars, histVars>>

\* ---- helpers -------------------------------------------------------------
Call(name, arg) == [call |-> name, arg |-> arg]
Op(name, text, nparams, size) == [op |-> name, text |-> text, nparams |-> nparams, size |-> size]
Outcome(kind, expected, got) == [kind |-> kind, expected |-> expected, got |-> got]
Ok == Outcome("ok", 0, 0)
CloseFailed == "close_statement failed"

Range(s) == {s[i] : i \in 1..Len(s)}

\* deque.remove(x): drops the first occurrence of x
RECURSIVE Remove(_, _)
Remove(s, x) ==
    IF s = <<>> THEN <<>>
    ELSE IF Head(s) = x THEN Tail(s)
    ELSE <<Head(s)>> \o Remove(Tail(s), x)

\* the orders in which a dict with key set S can be iterated
Orders(S) == {s \in [1..Cardinality(S) -> S] : \A i, j \in 1..Cardinality(S) : s[i] = s[j] => i = j}

\* the ResultSet object the cursor holds: its rows (numbered 1..rows) and how many
\* of them fetchone has handed out
NoRows == [rows |-> 0, pos |-> 0]

\* the scratch Statement handle, self._statement
statement == 0

arraysize == 1

\* PreparedStatement.parameter_count, as the session reports it for a text
ParameterCount(text) == text % (MaxParams + 1)

\* _check_closed that looks at the connection only
CheckSessionOnly(isClosed, sessClosed) ==
    IF sessClosed THEN "connection is closed" ELSE "ok"

\* Cursor._check_closed: the error it raises, or "ok"
_check_closed(isClosed, sessClosed) ==
    IF isClosed THEN "cursor is closed"
    ELSE IF sessClosed THEN "connection is closed"
    ELSE "ok"

\* ---- StatementCache ------------------------------------------------------
\* EvictLoop that drops the entry without close_statement: the handle leaks
RECURSIVE EvictLoopNoClose(_, _)
EvictLoopNoClose(c, size) ==
    IF Cardinality(DOMAIN c.cache) >= size
    THEN IF c.queue = <<>> THEN [c EXCEPT !.err = "IndexError"]
         ELSE IF Head(c.queue) \notin DOMAIN c.cache
              THEN [c EXCEPT !.queue = Tail(c.queue), !.err = "KeyError"]
         ELSE EvictLoopNoClose([cache  |-> [k \in DOMAIN c.cache \ {Head(c.queue)} |-> c.cache[k]],
                                queue  |-> Tail(c.queue),
                                calls  |-> c.calls,
                                counts |-> c.counts,
                                err    |-> "ok"],
                               size)
    ELSE c

\* EvictLoop with the test `>` for `>=`: evicts one entry too late
RECURSIVE EvictLoopLate(_, _)
EvictLoopLate(c, size) ==
    IF Cardinality(DOMAIN c.cache) > size
    THEN IF c.queue = <<>> THEN [c EXCEPT !.err = "IndexError"]
         ELSE IF Head(c.queue) \notin DOMAIN c.cache
              THEN [c EXCEPT !.queue = Tail(c.queue), !.err = "KeyError"]
         ELSE LET lru_statement_key == Head(c.queue)
                  statement_to_remove == c.cache[lru_statement_key]
              IN  EvictLoopLate([cache  |-> [k \in DOMAIN c.cache \ {lru_statement_key} |-> c.cache[k]],
                                 queue  |-> Tail(c.queue),
                                 calls  |-> Append(c.calls, Call("close_statement", statement_to_remove)),
                                 counts |-> [c.counts EXCEPT ![statement_to_remove] = @ + 1],
                                 err    |-> "ok"],
                                size)
    ELSE c

\* EvictLoop with pop() for popleft(): evicts the most recently used entry
RECURSIVE EvictLoopPopRight(_, _)
EvictLoopPopRight(c, size) ==
    IF Cardinality(DOMAIN c.cache) >= size
    THEN IF c.queue = <<>> THEN [c EXCEPT !.err = "IndexError"]
         ELSE IF c.queue[Len(c.queue)] \notin DOMAIN c.cache
              THEN [c EXCEPT !.queue = SubSeq(c.queue, 1, Len(c.queue) - 1), !.err = "KeyError"]
         ELSE LET lru_statement_key == c.queue[Len(c.queue)]
                  statement_to_remove == c.cache[lru_statement_key]
              IN  EvictLoopPopRight([cache  |-> [k \in DOMAIN c.cache \ {lru_statement_key} |-> c.cache[k]],
                                     queue  |-> SubSeq(c.queue, 1, Len(c.queue) - 1),
                                     calls  |-> Append(c.calls, Call("close_statement", statement_to_remove)),
                                     counts |-> [c.counts EXCEPT ![statement_to_remove] = @ + 1],
                                     err    |-> "ok"],
                                    size)
    ELSE c

\* the eviction loop of get_prepared_statement; c is [cache, queue, calls, counts, err].
\* popleft() of an empty deque raises IndexError, a key missing from the dict KeyError.
RECURSIVE EvictLoop(_, _)
EvictLoop(c, size) ==
    IF Cardinality(DOMAIN c.cache) >= size
    THEN IF c.queue = <<>> THEN [c EXCEPT !.err = "IndexError"]
         ELSE IF Head(c.queue) \notin DOMAIN c.cache
              THEN [c EXCEPT !.queue = Tail(c.queue), !.err = "KeyError"]
         ELSE LET lru_statement_key == Head(c.queue)
                  statement_to_remove == c.cache[lru_statement_key]
              IN  EvictLoop([cache  |-> [k \in DOMAIN c.cache \ {lru_statement_key} |-> c.cache[k]],
                             queue  |-> Tail(c.queue),
                             calls  |-> Append(c.calls, Call("close_statement", statement_to_remove)),
                             counts |-> [c.counts EXCEPT ![statement_to_remove] = @ + 1],
                             err    |-> "ok"],
                            size)
    ELSE c

\* Hit without the remove(): the key is appended a second time
HitNoRemove(cache, queue, q) ==
    [cache |-> cache, queue |-> Append(queue, q), statement |-> cache[q],
     calls |-> <<>>, prepared |-> prepared, counts |-> closeCount, err |-> "ok"]

\* Hit that leaves the queue alone: first-in first-out instead of least recently used
HitNoRefresh(cache, queue, q) ==
    [cache |-> cache, queue |-> queue, statement |-> cache[q],
     calls |-> <<>>, prepared |-> prepared, counts |-> closeCount, err |-> "ok"]

\* Hit that prepares the text again and replaces the cached handle
HitRecreates(cache, queue, q) ==
    [cache |-> [cache EXCEPT ![q] = Len(prepared) + 1],
     queue |-> Append(Remove(queue, q), q), statement |-> Len(prepared) + 1,
     calls |-> <<Call("create_prepared_statement", q)>>,
     prepared |-> Append(prepared, q),
     counts |-> closeCount @@ ((Len(prepared) + 1) :> 0), err |-> "ok"]

\* the hit branch of get_prepared_statement; deque.remove raises ValueError for a
\* key the queue does not hold
Hit(cache, queue, q) ==
    IF q \notin Range(queue)
    THEN [cache |-> cache, queue |-> queue, statement |-> cache[q],
          calls |-> <<>>, prepared |-> prepared, counts |-> closeCount, err |-> "ValueError"]
    ELSE [cache |-> cache, queue |-> Append(Remove(queue, q), q), statement |-> cache[q],
          calls |-> <<>>, prepared |-> prepared, counts |-> closeCount, err |-> "ok"]

\* Miss that inserts the new entry before the eviction loop runs
MissInsertFirst(cache, queue, q) ==
    LET h == Len(prepared) + 1
        e == EvictLoop([cache |-> (q :> h) @@ cache, queue |-> Append(queue, q),
                        calls |-> <<Call("create_prepared_statement", q)>>,
                        counts |-> closeCount @@ (h :> 0),
                        err |-> "ok"],
                       ps_cache_size)
    IN  [cache |-> e.cache, queue |-> e.queue, statement |-> h,
         calls |-> e.calls, prepared |-> Append(prepared, q), counts |-> e.counts,
         err |-> e.err]

\* the miss branch of get_prepared_statement
Miss(cache, queue, q) ==
    LET h == Len(prepared) + 1
        e == EvictLoop([cache |-> cache, queue |-> queue,
                        calls |-> <<Call("create_prepared_statement", q)>>,
                        counts |-> closeCount @@ (h :> 0),
                        err |-> "ok"],
                       ps_cache_size)
    IN  IF e.err # "ok"
        THEN [cache |-> e.cache, queue |-> e.queue, statement |-> h,
              calls |-> e.calls, prepared |-> Append(prepared, q), counts |-> e.counts,
              err |-> e.err]
        ELSE [cache |-> (q :> h) @@ e.cache, queue |-> Append(e.queue, q), statement |-> h,
              calls |-> e.calls, prepared |-> Append(prepared, q), counts |-> e.counts,
              err |-> "ok"]

\* the eviction loop when the session's close_statement raises on its first call:
\* popleft() has run, the del has not, and the failed close is not counted
EvictLoopCloseFails(c, size) ==
    IF /\ Cardinality(DOMAIN c.cache) >= size
       /\ c.queue # <<>>
       /\ Head(c.queue) \in DOMAIN c.cache
    THEN [c EXCEPT !.queue = Tail(c.queue),
                   !.calls = Append(c.calls, Call("close_statement", c.cache[Head(c.queue)])),
                   !.err = CloseFailed]
    ELSE EvictLoop(c, size)

\* the miss branch of get_prepared_statement when close_statement raises: the
\* exception leaves the method before the new entry is stored
MissCloseFails(cache, queue, q) ==
    LET h == Len(prepared) + 1
        e == EvictLoopCloseFails([cache |-> cache, queue |-> queue,
                                  calls |-> <<Call("create_prepared_statement", q)>>,
                                  counts |-> closeCount @@ (h :> 0),
                                  err |-> "ok"],
                                 ps_cache_size)
    IN  [cache |-> e.cache, queue |-> e.queue, statement |-> h,
         calls |-> e.calls, prepared |-> Append(prepared, q), counts |-> e.counts,
         err |-> e.err]

\* StatementCache.get_prepared_statement(query)
get_prepared_statement(q) ==
    IF q \in DOMAIN ps_cache THEN Hit(ps_cache, ps_key_queue, q)
    ELSE Miss(ps_cache, ps_key_queue, q)

\* shutdown that closes the cached handles and forgets the scratch statement
ShutdownLeavesScratch(order) ==
    LET closes == [i \in 1..Len(order) |-> Call("close_statement", ps_cache[order[i]])]
    IN  [cache |-> <<>>, queue |-> <<>>,
         calls |-> closes,
         counts |-> [h \in DOMAIN closeCount |->
                        closeCount[h] + Cardinality({k \in DOMAIN ps_cache : ps_cache[k] = h})]]

\* StatementCache.shutdown(), closing the cached handles in dict order `order`
shutdown(order) ==
    LET closes == [i \in 1..Len(order) |-> Call("close_statement", ps_cache[order[i]])]
    IN  [cache |-> <<>>, queue |-> <<>>,
         calls |-> <<Call("close_statement", statement)>> \o closes,
         counts |-> [h \in DOMAIN closeCount |->
                        closeCount[h] + (IF h = statement THEN 1 ELSE 0)
                                      + Cardinality({k \in DOMAIN ps_cache : ps_cache[k] = h})]]

\* ---- Init ----------------------------------------------------------------
Init ==
    /\ closed = FALSE
    /\ description = None
    /\ rowcount = -1
    /\ colcount = -1
    /\ rownumber = 0
    /\ query = None
    /\ result_set = None
    /\ ps_cache = <<>>
    /\ ps_key_queue = <<>>
    /\ ps_cache_size \in 1..MaxCapacity
    /\ session_closed = FALSE
    /\ prepared = <<>>
    /\ closeCount = (statement :> 0)
    /\ resultSets = <<>>
    /\ rs_state = NoRows
    /\ lastOp = Op("init", None, NoParams, NoSize)
    /\ outcome = Ok
    /\ calls = <<Call("create_statement", 0)>>
    /\ returned = <<>>
    /\ accessLog = <<>>
    /\ rowsReturned = 0

\* a call that fails in _check_closed: nothing but the report of the call changes
Raises(op, err) ==
    /\ lastOp' = op
    /\ outcome' = Outcome(err, 0, 0)
    /\ calls' = <<>>
    /\ returned' = <<>>
    /\ UNCHANGED <<cursorVars, cacheVars, sessionVars, histVars>>

\* what get_prepared_statement(text) leaves behind, as result g
CacheAfter(g, text) ==
    /\ ps_cache' = g.cache
    /\ ps_key_queue' = g.queue
    /\ prepared' = g.prepared
    /\ closeCount' = g.counts
    /\ accessLog' = Append(accessLog, text)
    /\ UNCHANGED ps_cache_size

\* executemany that starts with _reset, as execute does
ExecuteManyResets(text) ==
    LET op == Op("executemany", text, NoParams, NoSize)
        chk == _check_closed(closed, session_closed)
        g == get_prepared_statement(text)
    IN  IF chk # "ok" THEN Raises(op, chk)
        ELSE /\ CacheAfter(g, text)
             /\ lastOp' = op
             /\ outcome' = IF g.err # "ok" THEN Outcome(g.err, 0, 0) ELSE Ok
             /\ calls' = IF g.err # "ok" THEN g.calls
                         ELSE Append(g.calls, Call("execute_batch_prepared_statement", g.statement))
             /\ returned' = <<>>
             /\ description' = None
             /\ rowcount' = -1
             /\ colcount' = -1
             /\ result_set' = None
             /\ rs_state' = NoRows
             /\ UNCHANGED <<closed, rownumber, query, session_closed, resultSets, rowsReturned>>

\* Cursor.executemany(operation, seq_of_parameters)
ExecuteMany(text) ==
    LET op == Op("executemany", text, NoParams, NoSize)
        chk == _check_closed(closed, session_closed)
        g == get_prepared_statement(text)
    IN  IF chk # "ok" THEN Raises(op, chk)
        ELSE /\ CacheAfter(g, text)
             /\ lastOp' = op
             /\ outcome' = IF g.err # "ok" THEN Outcome(g.err, 0, 0) ELSE Ok
             /\ calls' = IF g.err # "ok" THEN g.calls
                         ELSE Append(g.calls, Call("execute_batch_prepared_statement", g.statement))
             /\ returned' = <<>>
             /\ UNCHANGED <<cursorVars, session_closed, resultSets, rs_state, rowsReturned>>

\* Cursor.executemany(operation, seq_of_parameters) on a miss whose eviction is
\* refused by the session: the exception of close_statement reaches the caller
ExecuteManyCloseFails(text) ==
    LET op == Op("executemany", text, NoParams, NoSize)
        g == MissCloseFails(ps_cache, ps_key_queue, text)
    IN  /\ _check_closed(closed, session_closed) = "ok"
        /\ text \notin DOMAIN ps_cache
        /\ g.err = CloseFailed
        /\ CacheAfter(g, text)
        /\ lastOp' = op
        /\ outcome' = Outcome(g.err, 0, 0)
        /\ calls' = g.calls
        /\ returned' = <<>>
        /\ UNCHANGED <<cursorVars, session_closed, resultSets, rs_state, rowsReturned>>

\* Cursor._reset, when execute raises after it: rownumber is left as it was
ResetOnly ==
    /\ description' = None
    /\ rowcount' = -1
    /\ colcount' = -1
    /\ result_set' = None
    /\ rowsReturned' = 0
    /\ rs_state' = NoRows
    /\ UNCHANGED <<rownumber, resultSets>>

\* Cursor.execute from `self.rowcount = exec_result.row_count` on, after _reset;
\* stmt is exec_result.statement, soFar the session calls made so far
ExecuteTail(stmt, soFar, row_count, result, rows) ==
    LET rs == Len(resultSets) + 1
    IN  /\ rowcount' = IF row_count < 0 THEN -1 ELSE row_count
        /\ colcount' = -1
        /\ rownumber' = 0
        /\ rowsReturned' = 0
        /\ IF result > 0
           THEN /\ result_set' = rs
                /\ description' = rs
                /\ resultSets' = Append(resultSets, [statement |-> stmt, closed |-> FALSE])
                /\ rs_state' = [rows |-> rows, pos |-> 0]
                /\ calls' = soFar \o <<Call("fetch_result_set", stmt),
                                       Call("fetch_result_set_description", rs)>>
           ELSE /\ result_set' = None
                /\ description' = None
                /\ calls' = soFar
                /\ rs_state' = NoRows
                /\ UNCHANGED resultSets

ParameterMismatch == "Incorrect number of parameters specified"

\* _executeprepared without the comparison of the counts
ExecutePreparedUnchecked(g, nparams) ==
    IF g.err # "ok" THEN [raised |-> Outcome(g.err, 0, 0), calls |-> g.calls]
    ELSE [raised |-> Ok,
          calls |-> Append(g.calls, Call("execute_prepared_statement", g.statement))]

\* Cursor._executeprepared after get_prepared_statement returned g (or raised g.err):
\* the error raised, if any, and the session calls made
_executeprepared(g, nparams) ==
    LET parameter_count == ParameterCount(g.prepared[g.statement])
    IN  IF g.err # "ok" THEN [raised |-> Outcome(g.err, 0, 0), calls |-> g.calls]
        ELSE IF parameter_count # nparams
        THEN [raised |-> Outcome(ParameterMismatch, parameter_count, nparams), calls |-> g.calls]
        ELSE [raised |-> Ok,
              calls |-> Append(g.calls, Call("execute_prepared_statement", g.statement))]

\* execute whose _execute takes a handle for the text from the cache instead of
\* the scratch statement
ExecuteThroughCache(text, nparams, row_count, result, rows) ==
    LET op == Op("execute", text, nparams, NoSize)
        chk == _check_closed(closed, session_closed)
        g == get_prepared_statement(text)
        e == _executeprepared(g, nparams)
    IN  IF chk # "ok" THEN Raises(op, chk)
        ELSE IF nparams = NoParams
        THEN /\ CacheAfter(g, text)
             /\ lastOp' = op
             /\ outcome' = Ok
             /\ ExecuteTail(g.statement, Append(g.calls, Call("execute_statement", g.statement)),
                            row_count, result, rows)
             /\ query' = text
             /\ returned' = <<>>
             /\ UNCHANGED <<closed, session_closed>>
        ELSE /\ CacheAfter(g, text)
             /\ lastOp' = op
             /\ query' = text
             /\ returned' = <<>>
             /\ UNCHANGED <<closed, session_closed>>
             /\ outcome' = e.raised
             /\ IF e.raised # Ok
                THEN calls' = e.calls /\ ResetOnly
                ELSE ExecuteTail(g.statement, e.calls, row_count, result, rows)

\* Cursor.execute(operation, parameters): nparams is NoParams or len(parameters);
\* the session answers with exec_result = (row_count, result) and, when result > 0,
\* a result set of `rows` rows
Execute(text, nparams, row_count, result, rows) ==
    LET op == Op("execute", text, nparams, NoSize)
        chk == _check_closed(closed, session_closed)
        g == get_prepared_statement(text)
        e == _executeprepared(g, nparams)
    IN  IF chk # "ok" THEN Raises(op, chk)
        ELSE IF nparams = NoParams
        THEN \* _execute
             /\ lastOp' = op
             /\ outcome' = Ok
             /\ ExecuteTail(statement, <<Call("execute_statement", statement)>>,
                            row_count, result, rows)
             /\ query' = text
             /\ returned' = <<>>
             /\ UNCHANGED <<closed, cacheVars, session_closed, prepared, closeCount, accessLog>>
        ELSE \* _executeprepared
             /\ CacheAfter(g, text)
             /\ lastOp' = op
             /\ query' = text
             /\ returned' = <<>>
             /\ UNCHANGED <<closed, session_closed>>
             /\ outcome' = e.raised
             /\ IF e.raised # Ok
                THEN calls' = e.calls /\ ResetOnly
                ELSE ExecuteTail(g.statement, e.calls, row_count, result, rows)

\* ResultSet.fetchone(session): the next row (rows are numbered 1..rows) or None
ResultSetFetchone(r) ==
    IF r.pos < r.rows THEN [row |-> r.pos + 1, rs |-> [r EXCEPT !.pos = @ + 1]]
    ELSE [row |-> None, rs |-> r]

\* Cursor.fetchone past its two checks; st is [rs, rownumber, calls, row]
fetchone(st) ==
    LET f == ResultSetFetchone(st.rs)
    IN  [rs |-> f.rs, rownumber |-> st.rownumber + 1,
         calls |-> Append(st.calls, Call("fetchone", result_set)), row |-> f.row]

\* FetchLoop with the test `>` for `>=`: one row too many
RECURSIVE FetchLoopOneMore(_, _, _)
FetchLoopOneMore(st, fetched_rows, size) ==
    IF size # NoSize /\ Len(fetched_rows) > size
    THEN [st |-> st, fetched_rows |-> fetched_rows]
    ELSE LET f == fetchone(st)
         IN  IF f.row = None THEN [st |-> f, fetched_rows |-> fetched_rows]
             ELSE FetchLoopOneMore(f, Append(fetched_rows, f.row), size)

\* the loops of fetchmany (size >= 0) and fetchall (size = NoSize);
\* st is [rs, rownumber, calls, row], fetched_rows the rows collected so far
RECURSIVE FetchLoop(_, _, _)
FetchLoop(st, fetched_rows, size) ==
    IF size # NoSize /\ Len(fetched_rows) >= size
    THEN [st |-> st, fetched_rows |-> fetched_rows]
    ELSE LET f == fetchone(st)
         IN  IF f.row = None THEN [st |-> f, fetched_rows |-> fetched_rows]
             ELSE FetchLoop(f, Append(fetched_rows, f.row), size)

\* what a fetch leaves behind: st the final [rs, rownumber, calls, row], rows the rows returned
FetchAfter(op, st, rows) ==
    /\ rownumber' = st.rownumber
    /\ rs_state' = st.rs
    /\ rowsReturned' = rowsReturned + Len(rows)
    /\ lastOp' = op
    /\ outcome' = Ok
    /\ calls' = st.calls
    /\ returned' = rows
    /\ UNCHANGED <<closed, description, rowcount, colcount, query, result_set,
                   cacheVars, session_closed, prepared, closeCount, resultSets, accessLog>>

NoResults == "Previous execute did not produce any results or no call was issued yet"

\* fetchone that counts the row before it looks for the result set
RaiseNoResultsCounted(op) ==
    /\ lastOp' = op
    /\ outcome' = Outcome(NoResults, 0, 0)
    /\ calls' = <<>>
    /\ returned' = <<>>
    /\ rownumber' = rownumber + 1
    /\ UNCHANGED <<closed, description, rowcount, colcount, query, result_set,
                   cacheVars, sessionVars, histVars>>

\* fetchone with no result set held: raises, nothing else changes
RaiseNoResults(op) == Raises(op, NoResults)

\* Cursor.fetchone()
FetchOne ==
    LET op == Op("fetchone", None, NoParams, NoSize)
        chk == _check_closed(closed, session_closed)
    IN  IF chk # "ok" THEN Raises(op, chk)
        ELSE IF result_set = None THEN RaiseNoResults(op)
        ELSE LET f == fetchone([rs |-> rs_state, rownumber |-> rownumber,
                                calls |-> <<>>, row |-> None])
             IN  FetchAfter(op, f, IF f.row = None THEN <<>> ELSE <<f.row>>)

\* Cursor.fetchmany(size): size is NoSize (None) or a number
FetchMany(size) ==
    LET op == Op("fetchmany", None, NoParams, size)
        chk == _check_closed(closed, session_closed)
        n == IF size = NoSize THEN arraysize ELSE size
    IN  IF chk # "ok" THEN Raises(op, chk)
        ELSE IF n > 0 /\ result_set = None THEN RaiseNoResults(op)
        ELSE IF n <= 0
        THEN /\ lastOp' = op
             /\ outcome' = Ok
             /\ calls' = <<>>
             /\ returned' = <<>>
             /\ UNCHANGED <<cursorVars, cacheVars, sessionVars, histVars>>
        ELSE LET l == FetchLoop([rs |-> rs_state, rownumber |-> rownumber,
                                 calls |-> <<>>, row |-> None], <<>>, n)
             IN  FetchAfter(op, l.st, l.fetched_rows)

\* Cursor.fetchall()
FetchAll ==
    LET op == Op("fetchall", None, NoParams, NoSize)
        chk == _check_closed(closed, session_closed)
    IN  IF chk # "ok" THEN Raises(op, chk)
        ELSE IF result_set = None THEN RaiseNoResults(op)
        ELSE LET l == FetchLoop([rs |-> rs_state, rownumber |-> rownumber,
                                 calls |-> <<>>, row |-> None], <<>>, NoSize)
             IN  FetchAfter(op, l.st, l.fetched_rows)

\* Cursor.close(); order is the order in which shutdown iterates the dict
Close(order) ==
    LET op == Op("close", None, NoParams, NoSize)
        chk == _check_closed(closed, session_closed)
        s == shutdown(order)
    IN  IF chk # "ok" THEN Raises(op, chk)
        ELSE /\ ps_cache' = s.cache
             /\ ps_key_queue' = s.queue
             /\ closeCount' = s.counts
             /\ IF result_set # None
                THEN /\ calls' = Append(s.calls, Call("result_set.close", result_set))
                     /\ resultSets' = [resultSets EXCEPT ![result_set].closed = TRUE]
                ELSE /\ calls' = s.calls
                     /\ UNCHANGED resultSets
             /\ closed' = TRUE
             /\ lastOp' = op
             /\ outcome' = Ok
             /\ returned' = <<>>
             /\ UNCHANGED <<description, rowcount, colcount, rownumber, query, result_set,
                            ps_cache_size, session_closed, prepared, rs_state, histVars>>

\* the connection is closed under the cursor: session.closed becomes true
SessionClose ==
    /\ ~session_closed
    /\ session_closed' = TRUE
    /\ UNCHANGED <<cursorVars, cacheVars, prepared, closeCount, resultSets, rs_state,
                   opVars, histVars>>

\* ---- specifications ------------------------------------------------------
\* the bounds that keep the counters of a run finite
Live == ~closed /\ ~session_closed
CanAccess(max) == Live => Len(accessLog) < max
CanFetchResultSet(max) == Live => Len(resultSets) < max
CanCount(max) == rownumber' <= max

\* every method of the cursor, over a few texts and short result sets; on a cursor that
\* is not live every call raises in _check_closed whatever its arguments, so one call of
\* each method is made
Next ==
    \/ \E text \in Texts, nparams \in {NoParams} \cup ParamLens, row_count \in RowCounts,
          result \in 0..1, rows \in 0..MaxRows :
            /\ result = 0 => rows = 0
            /\ nparams # NoParams => CanAccess(MaxAccesses)
            /\ result > 0 => CanFetchResultSet(MaxResultSets)
            /\ ~Live => text = 1 /\ nparams = NoParams /\ row_count = MaxRowCount /\ result = 0
            /\ Execute(text, nparams, row_count, result, rows)
    \/ \E text \in Texts :
            /\ CanAccess(MaxAccesses)
            /\ ~Live => text = 1
            /\ ExecuteMany(text)
    \/ FetchOne /\ CanCount(MaxRowNumber)
    \/ \E size \in {NoSize} \cup 0..MaxSize :
            /\ ~Live => size = NoSize
            /\ FetchMany(size) /\ CanCount(MaxRowNumber)
    \/ FetchAll /\ CanCount(MaxRowNumber)
    \/ \E order \in Orders(DOMAIN ps_cache) : Close(order)
    \/ SessionClose

Spec == Init /\ [][Next]_vars

\* the statement cache under longer runs of get_prepared_statement over more texts:
\* execute with and without parameters, executemany and close, with no result sets
CacheNext ==
    \/ \E text \in CacheTexts, nparams \in {NoParams} \cup ParamLens :
            /\ nparams # NoParams => CanAccess(MaxCacheAccesses)
            /\ ~Live => text = 1 /\ nparams = 0
            /\ Execute(text, nparams, MaxRowCount, 0, 0)
    \/ \E text \in CacheTexts :
            /\ CanAccess(MaxCacheAccesses)
            /\ ~Live => text = 1
            /\ ExecuteMany(text)
    \/ \E order \in Orders(DOMAIN ps_cache) : Close(order)

CacheSpec == Init /\ [][CacheNext]_vars

\* the fetch methods over longer result sets: execute without parameters, the three
\* fetch methods and close, with an empty statement cache
FetchNext ==
    \/ \E row_count \in RowCounts, result \in 0..1, rows \in 0..MaxFetchRows :
            /\ result = 0 => rows = 0
            /\ result > 0 => CanFetchResultSet(MaxFetchResultSets)
            /\ ~Live => row_count = MaxRowCount /\ result = 0
            /\ Execute(1, NoParams, row_count, result, rows)
    \/ FetchOne /\ CanCount(MaxFetchRowNumber)
    \/ \E size \in {NoSize} \cup 0..MaxFetchSize :
            /\ ~Live => size = NoSize
            /\ FetchMany(size) /\ CanCount(MaxFetchRowNumber)
    \/ FetchAll /\ CanCount(MaxFetchRowNumber)
    \/ \E order \in Orders(DOMAIN ps_cache) : Close(order)

FetchSpec == Init /\ [][FetchNext]_vars

\* evictions while the cursor holds a result set: execute with the parameters the
\* text takes, executemany, fetchone and close
EvictNext ==
    \/ \E text \in EvictTexts, result \in 0..1, rows \in 0..MaxRows :
            /\ result = 0 => rows = 0
            /\ CanAccess(MaxEvictAccesses)
            /\ result > 0 => CanFetchResultSet(MaxResultSets)
            /\ ~Live => text = 1 /\ result = 0
            /\ Execute(text, ParameterCount(text), MaxRowCount, result, rows)
    \/ \E text \in EvictTexts :
            /\ CanAccess(MaxEvictAccesses)
            /\ ~Live => text = 1
            /\ ExecuteMany(text)
    \/ FetchOne /\ CanCount(MaxRowNumber)
    \/ \E order \in Orders(DOMAIN ps_cache) : Close(order)

EvictSpec == Init /\ [][EvictNext]_vars

\* the cache when the session may refuse to close a statement
FaultNext ==
    \/ \E text \in EvictTexts :
            /\ CanAccess(MaxFaultAccesses)
            /\ ~Live => text = 1
            /\ Execute(text, ParameterCount(text), MaxRowCount, 0, 0)
    \/ \E text \in EvictTexts :
            /\ CanAccess(MaxFaultAccesses)
            /\ ~Live => text = 1
            /\ ExecuteMany(text)
    \/ \E text \in EvictTexts :
            /\ CanAccess(MaxFaultAccesses)
            /\ ExecuteManyCloseFails(text)
    \/ \E order \in Orders(DOMAIN ps_cache) : Close(order)

FaultSpec == Init /\ [][FaultNext]_vars

\* ---- properties ----------------------------------------------------------
NoDuplicates(s) == \A i, j \in 1..Len(s) : s[i] = s[j] => i = j

\* the position in the access log of the latest get_prepared_statement(t)
LastAccess(t) ==
    LET at == {i \in 1..Len(accessLog) : accessLog[i] = t}
    IN  CHOOSE i \in at : \A j \in at : j <= i

\* the handles passed to close_statement at least once
ClosedHandles == {h \in DOMAIN closeCount : closeCount[h] > 0}

\* C1: whenever a cache operation has completed, the cache holds at most
\* ps_cache_size prepared statements.
CacheWithinCapacity == Cardinality(DOMAIN ps_cache) <= ps_cache_size

\* a full cache of two entries that has already evicted
CacheWithinCapacityWitness ==
    /\ ~closed
    /\ ps_cache_size = 2
    /\ Cardinality(DOMAIN ps_cache) = 2
    /\ ClosedHandles # {}

\* C2: after every cache operation the key queue holds no text twice and holds
\* exactly the keys of the cache.
QueueMatchesCache ==
    /\ NoDuplicates(ps_key_queue)
    /\ Range(ps_key_queue) = DOMAIN ps_cache

\* two cached texts of which the older one was hit again
QueueMatchesCacheWitness ==
    /\ Len(ps_key_queue) = 2
    /\ Len(accessLog) = 3
    /\ accessLog[1] = accessLog[3]
    /\ ps_key_queue = <<accessLog[2], accessLog[1]>>

\* C3: a miss that evicts removes exactly the cached text whose latest access
\* (insert or hit) is the oldest among the cached texts.
EvictsLeastRecentlyUsed ==
    [][~closed' =>
        \A t \in DOMAIN ps_cache \ DOMAIN ps_cache' :
            \A u \in DOMAIN ps_cache : LastAccess(t) <= LastAccess(u)]_vars

\* text a was inserted, b inserted, a hit, then c inserted with capacity 2:
\* b is evicted and a, hit after b's insert, outlives it
EvictsLeastRecentlyUsedWitness ==
    /\ ps_cache_size = 2
    /\ Len(accessLog) = 4
    /\ accessLog[1] = accessLog[3]
    /\ NoDuplicates(SubSeq(accessLog, 2, 4))
    /\ DOMAIN ps_cache = {accessLog[3], accessLog[4]}
    /\ ~closed

\* C4: from an empty cache, after ps_cache_size + 1 calls of get_prepared_statement
\* with pairwise distinct texts the cache holds ps_cache_size entries, the first
\* text is gone, its handle was closed once and no other handle was closed.
OverflowEvictsFirst ==
    (~closed /\ Len(accessLog) = ps_cache_size + 1 /\ NoDuplicates(accessLog)) =>
        /\ Cardinality(DOMAIN ps_cache) = ps_cache_size
        /\ accessLog[1] \notin DOMAIN ps_cache
        /\ \A h \in 1..Len(prepared) :
               closeCount[h] = IF prepared[h] = accessLog[1] THEN 1 ELSE 0
        /\ closeCount[statement] = 0
        /\ \E h \in 1..Len(prepared) : prepared[h] = accessLog[1]

\* three distinct texts went through a cache of capacity two
OverflowEvictsFirstWitness ==
    /\ ~closed
    /\ ps_cache_size = 2
    /\ Len(accessLog) = 3
    /\ NoDuplicates(accessLog)

ClosedErrors == {"cursor is closed", "connection is closed"}
ExecutionCalls == {"execute_statement", "execute_prepared_statement",
                   "execute_batch_prepared_statement", "fetch_result_set",
                   "fetch_result_set_description"}

\* a step in which a method of the cursor was called (the connection did not change)
MethodCalled(name) == lastOp'.op = name /\ session_closed' = session_closed

\* C5: once close() has completed the cursor stays closed, and every later call of
\* a method raises "cursor is closed", makes no session call and changes neither
\* the cursor nor the cache nor the handles and result sets of the session.
ClosedIsTerminal ==
    [][closed =>
        /\ closed'
        /\ UNCHANGED <<cursorVars, cacheVars, prepared, closeCount, resultSets, rs_state>>
        /\ session_closed' = session_closed =>
               outcome' = Outcome("cursor is closed", 0, 0) /\ calls' = <<>>]_vars

\* a second close() was refused
ClosedIsTerminalWitness ==
    /\ closed
    /\ lastOp.op = "close"
    /\ outcome.kind = "cursor is closed"

\* C6: execute with parameters whose number differs from the handle's
\* parameter_count raises the mismatch error with both counts, and the session is
\* asked neither to execute the handle nor to fetch a result set.
MismatchRaisesBeforeExecution ==
    (/\ lastOp.op = "execute"
     /\ lastOp.nparams # NoParams
     /\ outcome.kind \notin ClosedErrors
     /\ lastOp.nparams # ParameterCount(lastOp.text)) =>
        /\ lastOp.text \in DOMAIN ps_cache
        /\ outcome = Outcome(ParameterMismatch,
                             ParameterCount(prepared[ps_cache[lastOp.text]]), lastOp.nparams)
        /\ \A i \in 1..Len(calls) : calls[i].call \notin ExecutionCalls

\* a mismatch on a miss that evicted: the handle was created, another closed, none executed
MismatchRaisesBeforeExecutionWitness ==
    /\ lastOp.op = "execute"
    /\ outcome.kind = ParameterMismatch
    /\ outcome.expected # outcome.got
    /\ Len(calls) = 2

\* C7 (as claimed): close() on an open cursor holding a result set releases the
\* result set first, then closes the scratch handle and the cached handles, then
\* marks the cursor closed.
CloseReleasesResultSetFirst ==
    (lastOp.op = "close" /\ outcome = Ok /\ result_set # None) =>
        /\ closed
        /\ calls[1] = Call("result_set.close", result_set)
        /\ \A i \in 2..Len(calls) : calls[i].call = "close_statement"

\* C8 (as claimed): on an open cursor rownumber is the number of rows the fetch
\* methods returned since the latest execute, and 0 right after an execute.
RowNumberCountsRows ==
    /\ ~closed => rownumber = rowsReturned
    /\ (lastOp.op = "execute" /\ outcome = Ok) => rownumber = 0

\* C9: fetchone on an open cursor that holds no result set raises the no-results
\* error, makes no session or result-set call and leaves cursor, cache and
\* session as they were.
FetchOneWithoutResultSet ==
    [][(Live /\ result_set = None /\ MethodCalled("fetchone")) =>
        /\ outcome' = Outcome(NoResults, 0, 0)
        /\ calls' = <<>>
        /\ UNCHANGED <<cursorVars, cacheVars, sessionVars>>]_vars

\* fetchone was refused after an execute that produced no result set
FetchOneWithoutResultSetWitness ==
    /\ Live
    /\ lastOp.op = "fetchone"
    /\ outcome.kind = NoResults
    /\ query # None
    /\ result_set = None

\* C10: with k rows left, fetchmany(n) returns the next min(n, k) rows in order and
\* moves the result set past them, so that consecutive calls return consecutive
\* segments; fetchall returns all the rows left, all k of them after an execute.
FetchReturnsNextRows ==
    [][(/\ Live
        /\ result_set # None
        /\ MethodCalled("fetchmany") \/ MethodCalled("fetchall")) =>
        LET k == rs_state.rows - rs_state.pos
            n == IF lastOp'.op = "fetchall" THEN k
                 ELSE IF lastOp'.size = NoSize THEN arraysize ELSE lastOp'.size
            m == IF n < k THEN n ELSE k
        IN  /\ outcome' = Ok
            /\ Len(returned') = m
            /\ \A i \in 1..m : returned'[i] = rs_state.pos + i
            /\ rs_state' = [rs_state EXCEPT !.pos = @ + m]]_vars

\* the second fetchmany(3) over five rows returned the last two rows
FetchReturnsNextRowsWitness ==
    /\ lastOp.op = "fetchmany"
    /\ lastOp.size = 3
    /\ rs_state = [rows |-> 5, pos |-> 5]
    /\ returned = <<4, 5>>
\* C11 (as claimed): an execute that passes the closed check, whether it succeeds
\* or raises the parameter mismatch, leaves query at the new text and rownumber
\* at 0; when it raises, description is None, rowcount is -1 and no result set is held.
ExecuteResetsCursor ==
    (lastOp.op = "execute" /\ outcome.kind \in {"ok", ParameterMismatch}) =>
        /\ query = lastOp.text
        /\ rownumber = 0
        /\ outcome.kind = ParameterMismatch =>
               description = None /\ rowcount = -1 /\ result_set = None

\* C12: executemany on an open cursor leaves query, description, rowcount,
\* rownumber and the held result set as they were; it makes one batched session
\* call, after the calls of the statement cache.
ExecuteManyFrame ==
    [][(Live /\ MethodCalled("executemany")) =>
        /\ UNCHANGED <<query, description, rowcount, colcount, rownumber, result_set,
                       rs_state, resultSets, closed>>
        /\ outcome' = Ok
        /\ Len(calls') >= 1
        /\ calls'[Len(calls')] =
               Call("execute_batch_prepared_statement", ps_cache'[lastOp'.text])
        /\ \A i \in 1..(Len(calls') - 1) :
               calls'[i].call \in {"create_prepared_statement", "close_statement"}]_vars

\* executemany ran while the cursor held a result set and a row count
ExecuteManyFrameWitness ==
    /\ Live
    /\ lastOp.op = "executemany"
    /\ outcome = Ok
    /\ result_set # None
    /\ description # None
    /\ rowcount = MaxRowCount
    /\ query # None
\* a step in which execute with parameters or executemany asked the cache for text
AsksCache(text) ==
    /\ session_closed' = session_closed
    /\ lastOp'.text = text
    /\ \/ lastOp'.op = "executemany"
       \/ lastOp'.op = "execute" /\ lastOp'.nparams # NoParams

\* C13: get_prepared_statement on a cached text returns the handle stored for
\* it, makes no session call of its own (no create, no close), and leaves the
\* entries of the cache, hence their number and key set, as they were.
HitFrame ==
    [][\A text \in DOMAIN ps_cache :
        (Live /\ AsksCache(text)) =>
            /\ ps_cache' = ps_cache
            /\ prepared' = prepared
            /\ closeCount' = closeCount
            /\ \A i \in 1..Len(calls') :
                   /\ calls'[i].call \notin {"create_prepared_statement", "close_statement"}
                   /\ calls'[i].arg = ps_cache[text]]_vars

\* executemany hit one of two cached texts: its one session call is the batch
HitFrameWitness ==
    /\ Live
    /\ lastOp.op = "executemany"
    /\ Cardinality(DOMAIN ps_cache) = 2
    /\ calls = <<Call("execute_batch_prepared_statement", ps_cache[lastOp.text])>>
\* the prepared statements created through the session and not closed through it
LivePrepared == {h \in 1..Len(prepared) : closeCount[h] = 0}

\* the change in the number of live prepared statements over the first n calls of cs
LiveDelta(cs, n) ==
    Cardinality({i \in 1..n : cs[i].call = "create_prepared_statement"})
    - Cardinality({i \in 1..n : cs[i].call = "close_statement" /\ cs[i].arg # statement})

\* C14: at every point of a run, between the session calls of a method as well,
\* at most ps_cache_size + 1 prepared statements are live, and at most
\* ps_cache_size once the method has returned.
LiveHandlesBounded ==
    [][session_closed' = session_closed =>
        /\ \A n \in 0..Len(calls') :
               Cardinality(LivePrepared) + LiveDelta(calls', n) <= ps_cache_size + 1
        /\ Cardinality(LivePrepared') <= ps_cache_size]_vars

\* a miss on a full cache of two: the third handle was created before one was closed
LiveHandlesBoundedWitness ==
    /\ Live
    /\ ps_cache_size = 2
    /\ Len(calls) >= 2
    /\ calls[1].call = "create_prepared_statement"
    /\ calls[2].call = "close_statement"
    /\ Cardinality(LivePrepared) = 2
\* C15: execute without parameters passes the scratch statement made at
\* construction to execute_statement and leaves the cache and its queue alone;
\* no second scratch statement is made, and the scratch statement is closed by
\* close() only, whatever the cache evicts.
ScratchStatementFrame ==
    [][session_closed' = session_closed =>
        /\ (Live /\ lastOp'.op = "execute" /\ lastOp'.nparams = NoParams) =>
               /\ outcome' = Ok
               /\ Len(calls') >= 1
               /\ calls'[1] = Call("execute_statement", statement)
               /\ ps_cache' = ps_cache
               /\ ps_key_queue' = ps_key_queue
        /\ \A i \in 1..Len(calls') : calls'[i].call # "create_statement"
        /\ closeCount'[statement] # closeCount[statement] =>
               lastOp'.op = "close" /\ ~closed /\ closed']_vars

\* execute without parameters ran on a cache that had evicted: the scratch statement is open
ScratchStatementFrameWitness ==
    /\ Live
    /\ lastOp.op = "execute"
    /\ lastOp.nparams = NoParams
    /\ calls = <<Call("execute_statement", statement)>>
    /\ ps_cache # <<>>
    /\ ClosedHandles # {}
    /\ closeCount[statement] = 0
\* C16: no handle is passed to close_statement twice, and once close() has
\* completed every handle made by create_statement or create_prepared_statement
\* has been closed exactly once.
HandlesClosedOnce ==
    /\ \A h \in DOMAIN closeCount : closeCount[h] <= 1
    /\ closed =>
           /\ DOMAIN closeCount = {statement} \cup 1..Len(prepared)
           /\ \A h \in DOMAIN closeCount : closeCount[h] = 1

\* close() after a run in which a cache of two had evicted
HandlesClosedOnceWitness ==
    /\ closed
    /\ ps_cache_size = 2
    /\ Len(prepared) >= 3
    /\ lastOp.op = "close"
    /\ Len(calls) = 3

\* C17: the session is never asked to execute a handle that was passed to
\* close_statement, in this call or before; in particular not the handle a miss
\* returns.
NoExecuteOfClosedHandle ==
    \A i \in 1..Len(calls) :
        calls[i].call \in {"execute_statement", "execute_prepared_statement",
                           "execute_batch_prepared_statement"} =>
            /\ closeCount[calls[i].arg] = 0
            /\ \A j \in 1..Len(calls) :
                   calls[j].call = "close_statement" => calls[j].arg # calls[i].arg

\* a miss evicted one handle and the handle it returned was executed
NoExecuteOfClosedHandleWitness ==
    /\ Len(calls) = 3
    /\ calls[1].call = "create_prepared_statement"
    /\ calls[2].call = "close_statement"
    /\ calls[3].call = "execute_prepared_statement"
    /\ calls[3].arg = Len(prepared)
\* C18 (as claimed): whenever fetchone delegates to the held result set, the
\* statement whose execution produced that result set has not been closed.
FetchedResultSetStatementOpen ==
    (lastOp.op = "fetchone" /\ outcome = Ok /\ calls = <<Call("fetchone", result_set)>>) =>
        closeCount[resultSets[result_set].statement] = 0
\* C19 (as claimed): when close_statement fails during an eviction, the caller
\* sees the failure, the dict and the queue hold the same keys, and the new text
\* is not cached.
FailedEvictionKeepsCacheConsistent ==
    outcome.kind = CloseFailed =>
        /\ Range(ps_key_queue) = DOMAIN ps_cache
        /\ lastOp.text \notin DOMAIN ps_cache
\* C20 (as claimed): once close() has completed, every result set the cursor
\* obtained through fetch_result_set has been closed through the session.
CloseReleasesEveryResultSet ==
    closed => \A i \in 1..Len(resultSets) : resultSets[i].closed
====
